---- MODULE Spec2Model ----
(***************************************************************************)
(* Model of the training/validation loop with early stopping               *)
(* (utilities.py, train_regression_model), of the unscale helper           *)
(* (utilities.py, unscale), of the grid-search driver                      *)
(* (manual_optimization.py, module level) and of the single-trial          *)
(* objective (optimization_utility.py, objective).                         *)
(*                                                                         *)
(* Abstractions, all stated here:                                          *)
(*  - A float is an integer, plus the two IEEE values Inf and NaN.  Batch  *)
(*    losses are multiples of the dataset size so that the division of the *)
(*    weighted sum by len(dataset) is exact.                               *)
(*  - The parameters of a model are the number of optimizer steps applied  *)
(*    to it: every optimizer.step() updates the parameter tensors in place *)
(*    and yields a new value.                                              *)
(*  - Model objects live in a heap (models) and are named by identity, as  *)
(*    Python names them by reference.  model.state_dict() returns tensors  *)
(*    that share storage with the parameters: it is a reference to the     *)
(*    heap cell, not a copy of its content.                                *)
(*  - What the criterion, r2_score and mean_squared_error return on a      *)
(*    batch is an input: it is drawn from the value sets fixed by Init.    *)
(*  - The grid search runs with its lists, its epoch budget (600) and its  *)
(*    patience (5) cut down to the bounds below; so does the objective,    *)
(*    with its patience (10).                                              *)
(*                                                                         *)
(* Specifications: Spec (short runs of train_regression_model, any loss),  *)
(* SpecLong (runs past the second report epoch), SpecDiag (any data width, *)
(* varying MSE values), SpecGrid (the grid search), SpecUnscale (unscale), *)
(* SpecObjective (one trial of the objective, any loss).                   *)
(***************************************************************************)
EXTENDS Integers, Sequences, FiniteSets, TLC

\* ---------------------------------------------------------------- bounds
MaxEpochs == 5        \* num_epochs ranges over 1..MaxEpochs
MaxPatience == 2      \* patience ranges over 1..MaxPatience
MaxLoss == 2          \* finite validation batch losses: ValSize * (1..MaxLoss)
MaxMse == 1           \* per-column MSE values of a batch: 0..MaxMse
TrainSize == 2        \* len(train_loader.dataset); a training batch loss is TrainSize
ValSize == 2          \* len(val_loader.dataset)
MaxOut == 2           \* out_features of the model ranges over 1..MaxOut
NumH1 == 1            \* len(h1_values)
NumLayers == 1        \* len(num_layers_values)
NumLr == 2            \* len(learning_rates)
NumBatchSizes == 2    \* len(batch_sizes)
NumWd == 1            \* len(weight_decays)
LongExtra == 3        \* the long runs have ReportEvery + 1 .. ReportEvery + LongExtra epochs
LongLoss == 1         \* finite validation batch losses of the long runs: ValSize * (1..LongLoss)
GridEpochs == 2       \* epochs = 600 of the grid search, cut down
GridPatience == 1     \* patience=5 of the grid search, cut down
URows == 1            \* rows of the array given to unscale: 1..URows
UCols == 2            \* its columns: 0..UCols
UNames == 3           \* len(column_names): 0..UNames
DiagEpochs == 2       \* num_epochs of the runs whose MSE values vary: 1..DiagEpochs
ObjectivePatience == 2 \* patience=10 of the objective, cut down

\* ------------------------------------------------------------ constants
ReportEvery == 10     \* epoch % 10 == 0
Inf == 1000000        \* float("inf")
NaN == -1             \* the IEEE not-a-number

\* ---------------------------------------------------------------- floats
\* a < b on floats: every comparison with NaN is false
LtOrEqual(a, b) == a # NaN /\ b # NaN /\ a <= b
Lt(a, b) == a # NaN /\ b # NaN /\ a < b
FAdd(a, b) == IF a = NaN \/ b = NaN THEN NaN ELSE IF a = Inf \/ b = Inf THEN Inf ELSE a + b
\* a * n for an integer n >= 1 (a batch's row count)
FMul(a, n) == IF a = NaN THEN NaN ELSE IF a = Inf THEN Inf ELSE a * n
\* a / n for an integer n >= 1 (a dataset's length); exact on the values drawn
FDiv(a, n) == IF a = NaN THEN NaN ELSE IF a = Inf THEN Inf ELSE a \div n

RECURSIVE SeqSum(_)
SeqSum(s) == IF s = <<>> THEN 0 ELSE FAdd(Head(s), SeqSum(Tail(s)))
\* np.mean(values): the sum and the count, kept as an exact fraction
Mean(s) == [sum |-> SeqSum(s), n |-> Len(s)]
\* val_losses[-1]
PyLast(s) == s[Len(s)]
\* Python's min(list) on a non-empty list: keeps the first element unless a later one is < it
RECURSIVE MinFrom(_, _)
MinFrom(m, s) == IF s = <<>> THEN m ELSE MinFrom(IF Lt(Head(s), m) THEN Head(s) ELSE m, Tail(s))
PyMin(s) == MinFrom(Head(s), Tail(s))

\* ---------------------------------------------------------------- shapes
\* torch broadcasting of two 2-D shapes <<rows, cols>>
Broadcastable(s, t) ==
    /\ (s[1] = t[1] \/ s[1] = 1 \/ t[1] = 1)
    /\ (s[2] = t[2] \/ s[2] = 1 \/ t[2] = 1)

\* ------------------------------------------------------- the search space
h1_values == [i \in 1..NumH1 |-> i]
num_layers_values == [i \in 1..NumLayers |-> i]
learning_rates == [i \in 1..NumLr |-> i]
batch_sizes == [i \in 1..NumBatchSizes |-> i]
weight_decays == [i \in 1..NumWd |-> i]

\* the hyperparameters of the combination at loop position ix
Combo(ix) == [h1 |-> h1_values[ix[1]], layers |-> num_layers_values[ix[2]],
              lr |-> learning_rates[ix[3]], batch_size |-> batch_sizes[ix[4]],
              weight_decay |-> weight_decays[ix[5]]]

\* the five nested for loops: the position after ix, or <<>> when the enumeration is over
NextIdx(ix) ==
    IF ix[5] < Len(weight_decays) THEN [ix EXCEPT ![5] = @ + 1]
    ELSE IF ix[4] < Len(batch_sizes) THEN [ix EXCEPT ![4] = @ + 1, ![5] = 1]
    ELSE IF ix[3] < Len(learning_rates) THEN [ix EXCEPT ![3] = @ + 1, ![4] = 1, ![5] = 1]
    ELSE IF ix[2] < Len(num_layers_values) THEN [ix EXCEPT ![2] = @ + 1, ![3] = 1, ![4] = 1, ![5] = 1]
    ELSE IF ix[1] < Len(h1_values) THEN [ix EXCEPT ![1] = @ + 1, ![2] = 1, ![3] = 1, ![4] = 1, ![5] = 1]
    ELSE <<>>

\* DataLoader(dataset, batch_size): the row counts of its batches, the last one partial
RECURSIVE BatchRows(_, _)
BatchRows(size, bs) ==
    IF size = 0 THEN <<>>
    ELSE IF size <= bs THEN <<size>>
    ELSE <<bs>> \o BatchRows(size - bs, bs)


\* ----------------------------------------------------------------- state
VARIABLES
    pc,               \* position: "loop", "train", "val", "returned", "save", "done", "raised", or an unscale position
    error,            \* the exception that ended the program, "" if none
    \* the arguments of train_regression_model
    model,            \* the model object: its identity in the heap
    train_loader,     \* the row counts of the training batches
    val_loader,       \* the row counts of the validation batches
    num_epochs,
    patience,
    env,              \* the data: target widths, the model's output width, the values a batch can yield
    \* the locals of train_regression_model
    epoch,            \* zero-based, as range(num_epochs) counts
    b,                \* position in the loader being iterated
    train_loss,
    val_loss,
    train_losses,
    val_losses,
    best_val_loss,
    early_counter,
    best_model_state, \* <<>> for None, else <<state dict>>
    mse_values,
    r2_values,
    mean_mse,
    mean_r2,
    outputs_cols,     \* outputs.shape[1] of the last training batch, 0 before the first
    reports,          \* standard output: the progress reports printed so far
    params_hist,      \* history: the model's parameters at the end of each epoch's validation
    \* the heap of model objects: identity -> parameters
    models,
    \* the module-level state of manual_optimization.py
    idx,              \* the positions of the five nested loops
    grid_best_val_loss,
    best_params,      \* <<>> for None, else <<combination>>
    best_model,       \* 0 while unbound, else a model identity
    trained_model,    \* 0 while unbound, else a model identity
    train_log,        \* standard output: the combinations announced by "Training with ..."
    checkpoint,       \* the file written by torch.save: <<>> or <<[model, params]>>
    run_val_losses,   \* history: the val_losses each finished run returned, in order
    min_val_loss,     \* of the caller: <<>> while unbound, else <<min(val_losses)>>
    \* unscale: its arguments, its locals, and what it printed
    u_input,          \* history: the content of data when unscale was called
    u_data,           \* data: a sequence of rows, each a sequence of column values
    u_column_names,
    u_scaling_info,   \* column name -> [mean, std], for the names it has
    u_unscaled,       \* unscaled_data
    u_i,              \* the zero-based index enumerate() is at
    u_warned          \* the warning was printed

trainvars == <<model, train_loader, val_loader, num_epochs, patience, env, epoch, b,
               train_loss, val_loss, train_losses, val_losses, best_val_loss,
               early_counter, best_model_state, mse_values, r2_values, mean_mse,
               mean_r2, outputs_cols, reports, params_hist, models>>
gridvars == <<idx, grid_best_val_loss, best_params, best_model, trained_model,
              train_log, checkpoint, run_val_losses, min_val_loss>>
unscalevars == <<u_input, u_data, u_column_names, u_scaling_info, u_unscaled, u_i, u_warned>>
vars == <<pc, error, trainvars, gridvars, unscalevars>>

\* --------------------------------------------------- parameters as tensors
\* optimizer.step(): an in-place update of the parameter tensors
OptimizerStep(p) == p + 1

\* model.state_dict(): the tensors of the dict share storage with the model's parameters
StateDict(ms, m) == [tensors_of |-> m]

\* the values a state dict holds when it is read: those of the storage it shares
Deref(ms, sd) == ms[sd.tensors_of]

\* model.load_state_dict(sd): copies the dict's values into the parameters of m
LoadStateDict(ms, m, sd) == [ms EXCEPT ![m] = Deref(ms, sd)]

\* model.load_state_dict(best_model_state), line 118: best_model_state is None (<<>>)
\* or a state dict; load_state_dict raises on None
RestoreSkipsNone(ms, m, st) ==
    IF st = <<>> THEN [ok |-> TRUE, models |-> ms]
    ELSE [ok |-> TRUE, models |-> LoadStateDict(ms, m, st[1])]
Restore(ms, m, st) ==
    IF st = <<>> THEN [ok |-> FALSE, models |-> ms]
    ELSE [ok |-> TRUE, models |-> LoadStateDict(ms, m, st[1])]


\* ------------------------------------------------- train_regression_model
Min2(x, y) == IF x <= y THEN x ELSE y

\* the locals as lines 32-39 set them, and the first epoch's lines 41-42
TrainLocalsInit ==
    /\ epoch = 0
    /\ b = 1
    /\ train_loss = 0
    /\ val_loss = 0
    /\ train_losses = <<>>
    /\ val_losses = <<>>
    /\ best_val_loss = Inf
    /\ early_counter = 0
    /\ best_model_state = <<>>
    /\ mse_values = <<>>
    /\ r2_values = <<>>
    /\ mean_mse = Mean(<<>>)
    /\ mean_r2 = Mean(<<>>)
    /\ outputs_cols = 0
    /\ reports = <<>>
    /\ params_hist = <<>>

\* the same, as the assignments a call makes
TrainLocalsReset ==
    /\ epoch' = 0
    /\ b' = 1
    /\ train_loss' = 0
    /\ val_loss' = 0
    /\ train_losses' = <<>>
    /\ val_losses' = <<>>
    /\ best_val_loss' = Inf
    /\ early_counter' = 0
    /\ best_model_state' = <<>>
    /\ mse_values' = <<>>
    /\ r2_values' = <<>>
    /\ mean_mse' = Mean(<<>>)
    /\ mean_r2' = Mean(<<>>)
    /\ outputs_cols' = 0
    /\ reports' = <<>>
    /\ params_hist' = <<>>

\* one training batch: zero_grad, forward, the shape assertion, loss, backward, step
TrainBatch ==
    /\ pc = "train"
    /\ b <= Len(train_loader)
    /\ LET rows == train_loader[b]
           outshape == <<rows, env.out_features>>
           tgtshape == <<rows, env.train_cols>>
       IN  /\ outputs_cols' = outshape[2]
           /\ IF outshape # tgtshape
              THEN /\ pc' = "raised"
                   /\ error' = "AssertionError"
                   /\ UNCHANGED <<train_loss, models, b>>
              ELSE /\ \E l \in env.train_loss_vals :
                          train_loss' = FAdd(train_loss, FMul(l, rows))
                   /\ models' = [models EXCEPT ![model] = OptimizerStep(@)]
                   /\ b' = b + 1
                   /\ UNCHANGED <<pc, error>>
    /\ UNCHANGED <<model, train_loader, val_loader, num_epochs, patience, env, epoch,
                   val_loss, train_losses, val_losses, best_val_loss, early_counter,
                   best_model_state, mse_values, r2_values, mean_mse, mean_r2,
                   reports, params_hist>>
    /\ UNCHANGED <<gridvars, unscalevars>>

\* the training batches are exhausted: the epoch's mean training loss, then model.eval()
EndTrain ==
    /\ pc = "train"
    /\ b > Len(train_loader)
    /\ train_loss' = FDiv(train_loss, TrainSize)
    /\ train_losses' = Append(train_losses, train_loss')
    /\ val_loss' = 0
    /\ r2_values' = <<>>
    /\ pc' = "val"
    /\ b' = 1
    /\ UNCHANGED <<error, model, train_loader, val_loader, num_epochs, patience, env,
                   epoch, val_losses, best_val_loss, early_counter, best_model_state,
                   mse_values, mean_mse, mean_r2, outputs_cols, reports, params_hist,
                   models>>
    /\ UNCHANGED <<gridvars, unscalevars>>

\* one validation batch: forward, the criterion, the weighted loss, then per column
\* r2_score and mean_squared_error.  There is no shape assertion here: the criterion
\* broadcasts shapes that differ when it can, and targets[:, col] fails on a column
\* the targets do not have.
ValBatch ==
    /\ pc = "val"
    /\ b <= Len(val_loader)
    /\ LET rows == val_loader[b]
           outshape == <<rows, env.out_features>>
           tgtshape == <<rows, env.val_cols>>
           ncols == Min2(outshape[2], tgtshape[2])
       IN  IF ~Broadcastable(outshape, tgtshape)
           THEN /\ pc' = "raised"
                /\ error' = "RuntimeError"
                /\ UNCHANGED <<val_loss, r2_values, mse_values, b>>
           ELSE /\ \E l \in env.val_loss_vals :
                       val_loss' = FAdd(val_loss, FMul(l, rows))
                /\ \E r \in [1..ncols -> env.r2_vals] : r2_values' = r2_values \o r
                /\ \E m \in [1..ncols -> env.mse_vals] : mse_values' = mse_values \o m
                /\ IF tgtshape[2] < outshape[2]
                   THEN pc' = "raised" /\ error' = "IndexError" /\ b' = b
                   ELSE pc' = pc /\ error' = error /\ b' = b + 1
    /\ UNCHANGED <<model, train_loader, val_loader, num_epochs, patience, env, epoch,
                   train_loss, train_losses, val_losses, best_val_loss, early_counter,
                   best_model_state, mean_mse, mean_r2, outputs_cols, reports,
                   params_hist, models>>
    /\ UNCHANGED <<gridvars, unscalevars>>

\* the progress report of lines 95-102, as the record of what it prints
Report(vl) ==
    [epoch |-> epoch, train_loss |-> train_loss, val_loss |-> vl,
     r2_cols |-> SubSeq(r2_values, 1, outputs_cols), mean_r2 |-> Mean(r2_values),
     mse_cols |-> SubSeq(mse_values, 1, outputs_cols), mean_mse |-> Mean(mse_values)]

\* epoch % 10 == 0 or epoch == num_epochs-1
ReportsAtOneBased(e) == (e + 1) % ReportEvery = 0 \/ e = num_epochs - 1
ReportsAt(e) == e % ReportEvery = 0 \/ e = num_epochs - 1

\* the loop goes on to the next epoch (lines 41-42), or range(num_epochs) is exhausted
\* and the function returns (line 121)
NextEpochOffByOne ==
    IF epoch + 2 < num_epochs
    THEN /\ epoch' = epoch + 1
         /\ pc' = "train"
         /\ train_loss' = 0
    ELSE /\ epoch' = epoch
         /\ pc' = "returned"
         /\ train_loss' = train_loss
NextEpoch ==
    IF epoch + 1 < num_epochs
    THEN /\ epoch' = epoch + 1
         /\ pc' = "train"
         /\ train_loss' = 0
    ELSE /\ epoch' = epoch
         /\ pc' = "returned"
         /\ train_loss' = train_loss

\* the validation batches are exhausted: lines 83-119
EpochEnd ==
    /\ pc = "val"
    /\ b > Len(val_loader)
    /\ LET vl == FDiv(val_loss, ValSize)
       IN  /\ val_loss' = vl
           /\ val_losses' = Append(val_losses, vl)
           /\ mean_r2' = Mean(r2_values)
           /\ mean_mse' = Mean(mse_values)
           /\ reports' = IF ReportsAt(epoch) THEN Append(reports, Report(vl)) ELSE reports
           /\ params_hist' = Append(params_hist, models[model])
           /\ IF Lt(vl, best_val_loss)
              THEN /\ best_val_loss' = vl
                   /\ early_counter' = 0
                   /\ best_model_state' = <<StateDict(models, model)>>
                   /\ NextEpoch
                   /\ UNCHANGED <<models, error>>
              ELSE /\ early_counter' = early_counter + 1
                   /\ UNCHANGED <<best_val_loss, best_model_state>>
                   /\ IF early_counter' >= patience
                      THEN LET r == Restore(models, model, best_model_state)
                           IN  /\ models' = r.models
                               /\ pc' = IF r.ok THEN "returned" ELSE "raised"
                               /\ error' = IF r.ok THEN error ELSE "TypeError"
                               /\ UNCHANGED <<epoch, train_loss>>
                      ELSE /\ NextEpoch
                           /\ UNCHANGED <<models, error>>
    /\ b' = 1
    /\ UNCHANGED <<model, train_loader, val_loader, num_epochs, patience, env,
                   train_losses, mse_values, r2_values, outputs_cols>>
    /\ UNCHANGED <<gridvars, unscalevars>>


\* ------------------------------------------------------------------ unscale
\* data.shape[1]
NumColumns(d) == Len(d[1])

\* the bounds check of line 163
PastLastColumnOffByOne(i, n) == i > n
PastLastColumn(i, n) == i >= n

\* unscaled_data[:, i] = (data[:, i] * std) + mean, with i zero-based
StoreColumn(u, d, i, st) ==
    [r \in 1..Len(u) |-> [u[r] EXCEPT ![i + 1] = d[r][i + 1] * st.std + st.mean]]

\* one iteration of the loop over enumerate(column_names), lines 162-168; the store
\* goes to unscaled_data, which data.copy() made an array of its own: data is left alone
UnscaleStep ==
    /\ pc = "unscale"
    /\ u_i < Len(u_column_names)
    /\ LET column == u_column_names[u_i + 1]
       IN  IF PastLastColumn(u_i, NumColumns(u_data))
           THEN /\ u_warned' = TRUE
                /\ pc' = "unscaled"
                /\ UNCHANGED <<error, u_unscaled, u_data, u_i>>
           ELSE IF column \notin DOMAIN u_scaling_info
           THEN /\ pc' = "raised"
                /\ error' = "KeyError"
                /\ UNCHANGED <<u_warned, u_unscaled, u_data, u_i>>
           ELSE IF u_i >= NumColumns(u_data)
           THEN /\ pc' = "raised"
                /\ error' = "IndexError"
                /\ UNCHANGED <<u_warned, u_unscaled, u_data, u_i>>
           ELSE /\ u_unscaled' = StoreColumn(u_unscaled, u_data, u_i, u_scaling_info[column])
                /\ u_i' = u_i + 1
                /\ UNCHANGED <<pc, error, u_warned, u_data>>
    /\ UNCHANGED <<u_input, u_column_names, u_scaling_info>>
    /\ UNCHANGED <<trainvars, gridvars>>

\* column_names is exhausted: return unscaled_data (line 169)
UnscaleReturn ==
    /\ pc = "unscale"
    /\ u_i >= Len(u_column_names)
    /\ pc' = "unscaled"
    /\ UNCHANGED <<error, unscalevars, trainvars, gridvars>>

\* ------------------------------------------------- manual_optimization.py
\* the model objects still referenced when a new one is built
Live == {best_model, trained_model} \ {0}

\* the body of the innermost loop up to the call (lines 44-65), and the prologue of
\* train_regression_model (lines 29-42)
StartRun ==
    /\ pc = "loop"
    /\ train_log' = Append(train_log, Combo(idx))
    /\ train_loader' = BatchRows(TrainSize, Combo(idx).batch_size)
    /\ val_loader' = BatchRows(ValSize, Combo(idx).batch_size)
    /\ LET fresh == Len(train_log) + 1
       IN  /\ model' = fresh
           /\ models' = [m \in Live \cup {fresh} |-> IF m = fresh THEN 0 ELSE models[m]]
    /\ num_epochs' = GridEpochs
    /\ patience' = GridPatience
    /\ TrainLocalsReset
    /\ pc' = "train"
    /\ UNCHANGED <<error, env, idx, grid_best_val_loss, best_params, best_model,
                   trained_model, checkpoint, run_val_losses, min_val_loss>>
    /\ UNCHANGED unscalevars

\* the call returns (line 57); lines 66-75, and the loops step to the next combination
GridRecord ==
    /\ pc = "returned"
    /\ idx # <<>>
    /\ trained_model' = model
    /\ run_val_losses' = Append(run_val_losses, val_losses)
    /\ min_val_loss' = <<PyMin(val_losses)>>
    /\ IF Lt(min_val_loss'[1], grid_best_val_loss)
       THEN /\ grid_best_val_loss' = min_val_loss'[1]
            /\ best_params' = <<Combo(idx)>>
            /\ best_model' = model
       ELSE UNCHANGED <<grid_best_val_loss, best_params, best_model>>
    /\ idx' = NextIdx(idx)
    /\ pc' = IF idx' = <<>> THEN "save" ELSE "loop"
    /\ UNCHANGED <<error, trainvars, train_log, checkpoint>>
    /\ UNCHANGED unscalevars

\* torch.save(trained_model.state_dict(), model_save_path), lines 78-79
Save ==
    /\ pc = "save"
    /\ checkpoint' = <<[model |-> trained_model, params |-> models[trained_model]]>>
    /\ pc' = "done"
    /\ UNCHANGED <<error, trainvars, idx, grid_best_val_loss, best_params, best_model,
                   trained_model, train_log, run_val_losses, min_val_loss>>
    /\ UNCHANGED unscalevars

\* ------------------------------------------------- optimization_utility.py
\* objective after its call of train_regression_model returned (line 28): lines 44-46
ObjectiveReturn ==
    /\ pc = "returned"
    /\ idx = <<>>
    /\ min_val_loss' = <<PyMin(val_losses)>>
    /\ pc' = "objective_returned"
    /\ UNCHANGED <<error, trainvars, idx, grid_best_val_loss, best_params, best_model,
                   trained_model, train_log, checkpoint, run_val_losses>>
    /\ UNCHANGED unscalevars

\* ------------------------------------------------------------ initial states
\* the data a run can meet: the widths of the model's output and of the targets, and
\* the values the criterion and the two sklearn metrics can return on a batch
Envs(outs, valcols, lossvals, msevals) ==
    [out_features : outs, train_cols : outs, val_cols : valcols,
     train_loss_vals : {{TrainSize}}, val_loss_vals : {lossvals},
     mse_vals : {msevals}, r2_vals : {{1}}]

FiniteLosses(k) == {ValSize * i : i \in 1..k}

\* the (train_loader, val_loader) pairs built with one batch size, as the callers build them
Loaders(sizes) == {<<BatchRows(TrainSize, bs), BatchRows(ValSize, bs)>> : bs \in sizes}

GridIdle ==
    /\ idx = <<>>
    /\ grid_best_val_loss = Inf
    /\ best_params = <<>>
    /\ best_model = 0
    /\ trained_model = 0
    /\ train_log = <<>>
    /\ checkpoint = <<>>
    /\ run_val_losses = <<>>
    /\ min_val_loss = <<>>

UnscaleIdle ==
    /\ u_input = <<>>
    /\ u_data = <<>>
    /\ u_column_names = <<>>
    /\ u_scaling_info = <<>>
    /\ u_unscaled = <<>>
    /\ u_i = 0
    /\ u_warned = FALSE

\* train_regression_model has been called on a fresh model and stands before its first batch
InitTrain(epochs, patiences, envs, loaders) ==
    /\ pc = "train"
    /\ error = ""
    /\ model = 1
    /\ models = (1 :> 0)
    /\ \E ld \in loaders : train_loader = ld[1] /\ val_loader = ld[2]
    /\ num_epochs \in epochs
    /\ patience \in patiences
    /\ env \in envs
    /\ TrainLocalsInit
    /\ GridIdle
    /\ UnscaleIdle

\* short runs on well-shaped data: every loss value, every batching
Init ==
    InitTrain(1..MaxEpochs, 1..MaxPatience,
              Envs({1}, {1}, FiniteLosses(MaxLoss) \cup {Inf, NaN}, {0}),
              Loaders(1..ValSize))

\* long runs, past the second report epoch, with finite losses and one batch per loader
InitLong ==
    InitTrain((ReportEvery + 1)..(ReportEvery + LongExtra),
              (1..MaxPatience) \cup {ReportEvery + 1},
              Envs({1}, {1}, FiniteLosses(LongLoss), {0}),
              Loaders({ValSize}))

\* short runs on data of any width, whose per-column MSE values vary
InitDiag ==
    InitTrain(1..DiagEpochs, 1..MaxPatience,
              Envs(1..MaxOut, 1..(MaxOut + 1), FiniteLosses(1), 0..MaxMse),
              Loaders(1..ValSize))

\* the grid search stands before its first combination (line 39)
InitGrid ==
    /\ pc = "loop"
    /\ error = ""
    /\ model = 0
    /\ models = <<>>
    /\ train_loader = <<>>
    /\ val_loader = <<>>
    /\ num_epochs = 0
    /\ patience = 0
    /\ env \in Envs({1}, {1}, FiniteLosses(MaxLoss) \cup {Inf}, {0})
    /\ TrainLocalsInit
    /\ idx = <<1, 1, 1, 1, 1>>
    /\ grid_best_val_loss = Inf
    /\ best_params = <<>>
    /\ best_model = 0
    /\ trained_model = 0
    /\ train_log = <<>>
    /\ checkpoint = <<>>
    /\ run_val_losses = <<>>
    /\ min_val_loss = <<>>
    /\ UnscaleIdle

\* objective has built its loaders and its model and has called train_regression_model
\* (lines 17-38): every loss value, every batching
InitObjective ==
    InitTrain(1..MaxEpochs, {ObjectivePatience},
              Envs({1}, {1}, FiniteLosses(MaxLoss) \cup {Inf, NaN}, {0}),
              Loaders(1..ValSize))

\* the arrays, name lists and scaling metadata unscale is called on
UValues == {0, 1}
UColumnNames == {"power", "pressure"}
UStats == {[mean |-> 0, std |-> 2], [mean |-> 1, std |-> 1]}
SeqsUpTo(S, n) == UNION {[1..k -> S] : k \in 0..n}
PartialFns(D, R) == UNION {[X -> R] : X \in SUBSET D}

\* unscale has been called: unscaled_data = data.copy(), and the loop is at index 0
InitUnscale ==
    /\ pc = "unscale"
    /\ error = ""
    /\ model = 0
    /\ models = <<>>
    /\ train_loader = <<>>
    /\ val_loader = <<>>
    /\ num_epochs = 0
    /\ patience = 0
    /\ env = [out_features |-> 1, train_cols |-> 1, val_cols |-> 1, train_loss_vals |-> {},
              val_loss_vals |-> {}, mse_vals |-> {}, r2_vals |-> {}]
    /\ TrainLocalsInit
    /\ GridIdle
    /\ \E rows \in 1..URows, cols \in 0..UCols : u_data \in [1..rows -> [1..cols -> UValues]]
    /\ u_input = u_data
    /\ u_unscaled = u_data
    /\ u_column_names \in SeqsUpTo(UColumnNames, UNames)
    /\ u_scaling_info \in PartialFns(UColumnNames, UStats)
    /\ u_i = 0
    /\ u_warned = FALSE

Next ==
    \/ TrainBatch
    \/ EndTrain
    \/ ValBatch
    \/ EpochEnd

Spec == Init /\ [][Next]_vars
SpecLong == InitLong /\ [][Next]_vars
SpecDiag == InitDiag /\ [][Next]_vars

NextGrid ==
    \/ StartRun
    \/ TrainBatch
    \/ EndTrain
    \/ ValBatch
    \/ EpochEnd
    \/ GridRecord
    \/ Save

SpecGrid == InitGrid /\ [][NextGrid]_vars

NextUnscale ==
    \/ UnscaleStep
    \/ UnscaleReturn

SpecUnscale == InitUnscale /\ [][NextUnscale]_vars

NextObjective ==
    \/ TrainBatch
    \/ EndTrain
    \/ ValBatch
    \/ EpochEnd
    \/ ObjectiveReturn

SpecObjective == InitObjective /\ [][NextObjective]_vars


\* ===================================================== the claims, checked
\* a is strictly below b, as the claims mean it (no value is below or above NaN)
StrictlyBelow(x, y) == x # NaN /\ y # NaN /\ x < y

\* epoch j (one-based) of the losses vs improved on everything before it: its loss
\* is strictly below +infinity and below every earlier loss that can be compared
Improves(vs, j) ==
    /\ StrictlyBelow(vs[j], Inf)
    /\ \A i \in 1..(j - 1) : vs[i] = NaN \/ StrictlyBelow(vs[j], vs[i])

\* the last improving epoch among the first k, 0 if there is none
LastImprove(vs, k) ==
    IF \E j \in 1..k : Improves(vs, j)
    THEN CHOOSE j \in 1..k : Improves(vs, j) /\ \A i \in (j + 1)..k : ~Improves(vs, i)
    ELSE 0

\* the number of consecutive non-improving epochs that epoch k completes
Streak(vs, k) == k - LastImprove(vs, k)

\* the epoch with the lowest validation loss: the first one that holds the minimum
BestEpoch(vs) == LastImprove(vs, Len(vs))

EarlyStopped == pc = "returned" /\ early_counter >= patience
Exhausted == pc = "returned" /\ early_counter < patience
RestoreFailed == pc = "raised" /\ error = "TypeError"

\* C1: when early stopping fires, the parameters of the returned model are those the
\* model held at the end of the epoch with the lowest validation loss.
C1_RestoredIsBestSnapshot ==
    EarlyStopped => models[model] = params_hist[BestEpoch(val_losses)]

\* C2: the loop stops at the first epoch that completes `patience` consecutive
\* non-improving epochs (that is at best_epoch + patience), and runs all num_epochs
\* epochs otherwise.
C2_StopsAtFirstPatienceStreak ==
    /\ \A k \in 1..(Len(val_losses) - 1) : Streak(val_losses, k) < patience
    /\ pc \in {"train", "val"} =>
          /\ Len(val_losses) = epoch
          /\ Len(val_losses) > 0 => Streak(val_losses, Len(val_losses)) < patience
    /\ Exhausted =>
          /\ Len(val_losses) = num_epochs
          /\ Streak(val_losses, num_epochs) < patience
    /\ (EarlyStopped \/ RestoreFailed) =>
          /\ Len(val_losses) = epoch + 1
          /\ Len(val_losses) = BestEpoch(val_losses) + patience
          /\ Len(val_losses) <= num_epochs

C2_Witness ==
    /\ EarlyStopped
    /\ patience >= 2
    /\ BestEpoch(val_losses) >= 2
    /\ Len(val_losses) < num_epochs
    /\ \E k \in 1..BestEpoch(val_losses) : ~Improves(val_losses, k)

\* C5: a batch whose output shape differs from the target shape raises before its
\* loss is computed: nothing of it is accumulated, in training or in validation.
C5_MismatchRaisesBeforeLoss ==
    /\ env.train_cols # env.out_features =>
          train_loss = 0 /\ models[model] = 0 /\ train_losses = <<>>
    /\ env.val_cols # env.out_features =>
          val_loss = 0 /\ r2_values = <<>> /\ mse_values = <<>> /\ val_losses = <<>>

\* C6: when the patience threshold is reached and no validation loss was ever strictly
\* below +infinity, the restore fails and the function raises instead of returning.
C6_NoSnapshotRaises ==
    (/\ Len(val_losses) >= patience
     /\ \A i \in 1..Len(val_losses) : ~StrictlyBelow(val_losses[i], Inf))
    => (pc = "raised" /\ error = "TypeError" /\ best_model_state = <<>>
        /\ Len(val_losses) = patience)

C6_Witness ==
    /\ RestoreFailed
    /\ \E i \in 1..Len(val_losses) : val_losses[i] = Inf
    /\ \E i \in 1..Len(val_losses) : val_losses[i] = NaN

\* C7: when patience never triggers, all num_epochs epochs run and the returned model
\* holds the parameters of the last epoch, whatever epoch had the lowest validation loss.
C7_ExhaustedKeepsLastParams ==
    Exhausted =>
        /\ Len(val_losses) = num_epochs
        /\ Len(train_losses) = num_epochs
        /\ models[model] = params_hist[num_epochs]

C7_Witness ==
    /\ Exhausted
    /\ BestEpoch(val_losses) \in 1..(num_epochs - 1)
    /\ StrictlyBelow(val_losses[BestEpoch(val_losses)], val_losses[num_epochs])
    /\ models[model] # params_hist[BestEpoch(val_losses)]


\* the zero-based epochs a progress report was printed for
ReportedEpochs == {reports[i].epoch : i \in 1..Len(reports)}

\* C8 as stated: a report on every 10th epoch and on the final epoch of the run, also
\* when early stopping ends the run, and on no other epoch.
C8_ReportOnFinalEpochOfRun ==
    pc = "returned" =>
        ReportedEpochs = {e \in 0..(Len(val_losses) - 1) :
                             e % ReportEvery = 0 \/ e = Len(val_losses) - 1}

\* C8 amended: a report on every epoch whose zero-based index is a multiple of 10 and
\* on the last epoch of the budget (index num_epochs-1), and on no other epoch: the
\* epoch early stopping ends the run on gets none unless it is one of these.
C8_ReportOnBudgetEpochs ==
    /\ ReportedEpochs = {e \in 0..(Len(val_losses) - 1) :
                             e % ReportEvery = 0 \/ e = num_epochs - 1}
    /\ Cardinality(ReportedEpochs) = Len(reports)

C8_Witness ==
    /\ EarlyStopped
    /\ epoch = ReportEvery + 1
    /\ epoch < num_epochs - 1
    /\ ReportedEpochs = {0, ReportEvery}

\* the MSE entries appended during zero-based epoch e: one per validation batch and column
EpochMse(e) ==
    LET k == Len(val_loader) * Min2(env.out_features, env.val_cols)
    IN  SubSeq(mse_values, e * k + 1, (e + 1) * k)

\* two exact fractions are the same number
FracEq(p, q) == p.sum * q.n = q.sum * p.n

\* C10: the mean MSE and the per-column MSE reported for an epoch are computed from
\* that epoch's validation batches only, as the R2 values are.
C10_MseOfThisEpochOnly ==
    \A i \in 1..Len(reports) :
        LET r == reports[i]
        IN  /\ FracEq(r.mean_mse, Mean(EpochMse(r.epoch)))
            /\ r.mse_cols = SubSeq(EpochMse(r.epoch), 1, env.out_features)


\* the lowest validation loss of a run: the least of its losses that can be compared
LowestOf(vs) ==
    LET cmp == {vs[i] : i \in 1..Len(vs)} \ {NaN}
    IN  IF cmp = {} THEN NaN ELSE CHOOSE m \in cmp : \A x \in cmp : m <= x

\* the lowest validation loss of the i-th finished run
RunMin(i) == LowestOf(run_val_losses[i])

\* the lowest of them over all finished runs
GlobalMin ==
    LET mins == {RunMin(i) : i \in 1..Len(run_val_losses)}
    IN  CHOOSE m \in mins : \A x \in mins : m <= x

\* the first run, in enumeration order, that achieved it
FirstBest ==
    CHOOSE i \in 1..Len(run_val_losses) :
        /\ RunMin(i) = GlobalMin
        /\ \A j \in 1..(i - 1) : RunMin(j) # GlobalMin

AllCombos ==
    [h1 : {h1_values[i] : i \in 1..Len(h1_values)},
     layers : {num_layers_values[i] : i \in 1..Len(num_layers_values)},
     lr : {learning_rates[i] : i \in 1..Len(learning_rates)},
     batch_size : {batch_sizes[i] : i \in 1..Len(batch_sizes)},
     weight_decay : {weight_decays[i] : i \in 1..Len(weight_decays)}]

\* C3: the checkpoint holds the parameters of the model trained by the globally best
\* combination, whatever its position in the enumeration.
C3_CheckpointIsBestModel ==
    pc = "done" =>
        /\ Len(checkpoint) = 1
        /\ RunMin(checkpoint[1].model) = GlobalMin
        /\ checkpoint[1].params = models[checkpoint[1].model]

Rescaled == 0..(Min2(Len(u_column_names), NumColumns(u_input)) - 1)

\* C9: unscale never fails because column_names is longer than the data is wide: it
\* warns and stops; the columns below both lengths are value * std + mean, every other
\* column is the input's, and the input array is not modified.
C9_UnscaleTruncates ==
    /\ error # "IndexError"
    /\ u_data = u_input
    /\ pc = "unscaled" =>
          /\ u_warned <=> Len(u_column_names) > NumColumns(u_input)
          /\ Len(u_unscaled) = Len(u_input)
          /\ \A r \in 1..Len(u_input) :
                /\ Len(u_unscaled[r]) = NumColumns(u_input)
                /\ \A c \in 0..(NumColumns(u_input) - 1) :
                      u_unscaled[r][c + 1] =
                          IF c \in Rescaled
                          THEN u_input[r][c + 1] * u_scaling_info[u_column_names[c + 1]].std
                               + u_scaling_info[u_column_names[c + 1]].mean
                          ELSE u_input[r][c + 1]
    /\ (\A i \in Rescaled : u_column_names[i + 1] \in DOMAIN u_scaling_info)
          => pc # "raised"

C9_Witness ==
    /\ pc = "unscaled"
    /\ u_warned
    /\ NumColumns(u_input) >= 1
    /\ u_unscaled # u_input

\* ---------------------------------------------------------------- C11
\* the call of train_regression_model has returned normally
Returned == pc \in {"returned", "objective_returned"}

\* the least of +inf and the recorded validation losses that are not NaN
LeastComparable(vs) ==
    LET cmp == ({vs[i] : i \in 1..Len(vs)} \ {NaN}) \cup {Inf}
    IN  CHOOSE m \in cmp : \A x \in cmp : m <= x

\* after a normal return the two lists are as long as the epochs executed, 1..num_epochs
LengthsAreEpochsExecuted ==
    Returned =>
        /\ Len(train_losses) = Len(val_losses)
        /\ Len(val_losses) = epoch + 1
        /\ Len(val_losses) \in 1..num_epochs

====
